---- MODULE Spec2Model ----
(***************************************************************************)
(* A model of elhub_sdk/xml_parser.py: parse_metering_poll_response and    *)
(* its two nested decomposers.  One behaviour is one call: Init chooses    *)
(* the tree xmltodict.parse returned, and the actions are the statements   *)
(* of the function body in program order.                                  *)
(*                                                                         *)
(* Python values are records of one shape, so that any two of them can be  *)
(* compared: t is the type, s the characters of a str, kv the ordered      *)
(* (key, value) entries of a dict, el the elements of a list.  A str whose *)
(* text is parsed by the code (a timestamp, a Sequence attribute) is       *)
(* spelled one character per element; any other text is one opaque token.  *)
(***************************************************************************)
EXTENDS Integers, Sequences, FiniteSets, TLC

VARIABLES json_response, result_data_set, acknowledgment, metering,
          metering_list, acknowledgment_list, pc, outcome

vars == <<json_response, result_data_set, acknowledgment, metering,
          metering_list, acknowledgment_list, pc, outcome>>

----------------------------------------------------------------------------
(* Python values *)

PyNone == [t |-> "none", s |-> <<>>, kv |-> <<>>, el |-> <<>>]

PyStr(chars) == [t |-> "str", s |-> chars, kv |-> <<>>, el |-> <<>>]

PyDict(items) == [t |-> "dict", s |-> <<>>, kv |-> items, el |-> <<>>]

PyList(elems) == [t |-> "list", s |-> <<>>, kv |-> <<>>, el |-> elems]

\* An exception propagating out of an expression; s holds its class.
Raised(kind) == [t |-> "raise", s |-> <<kind>>, kv |-> <<>>, el |-> <<>>]

IsRaise(v) == v.t = "raise"

HasKey(d, k) == \E i \in 1..Len(d.kv) : d.kv[i][1] = k

Lookup(d, k, default) ==
    IF HasKey(d, k)
    THEN d.kv[CHOOSE i \in 1..Len(d.kv) : d.kv[i][1] = k][2]
    ELSE default

\* v.get(k, default): only a dict has the method; an exception raised while
\* evaluating v propagates.
GetDefault(v, k, default) ==
    IF IsRaise(v) THEN v
    ELSE IF v.t # "dict" THEN Raised("AttributeError")
    ELSE Lookup(v, k, default)

\* v.get(k)
Get(v, k) == GetDefault(v, k, PyNone)

\* bool(v), as `if v` and `not v` use it
Truthy(v) ==
    CASE v.t = "none" -> FALSE
      [] v.t = "str"  -> Len(v.s) > 0
      [] v.t = "dict" -> Len(v.kv) > 0
      [] v.t = "list" -> Len(v.el) > 0

\* isinstance(v, dict)
IsDict(v) == v.t = "dict"

\* `for x in v`: None is not iterable; a list yields its elements, a dict
\* its keys and a str its characters (each a str).
Iterable(v) == v.t \in {"list", "dict", "str"}

Items(v) ==
    CASE v.t = "list" -> v.el
      [] v.t = "dict" -> [i \in 1..Len(v.kv) |-> PyStr(<<v.kv[i][1]>>)]
      [] v.t = "str"  -> [i \in 1..Len(v.s) |-> PyStr(<<v.s[i]>>)]

\* list(e.values())
Values(d) == [i \in 1..Len(d.kv) |-> d.kv[i][2]]

\* The first exception among the values of seq, or PyNone when there is none.
RECURSIVE FirstRaise(_)
FirstRaise(seq) ==
    IF seq = <<>> THEN PyNone
    ELSE IF IsRaise(Head(seq)) THEN Head(seq)
    ELSE FirstRaise(Tail(seq))

----------------------------------------------------------------------------
(* int(), datetime.strptime, datetime + timedelta, datetime.isoformat *)

\* Here and below, a value that a statement computes once and then uses
\* several times is bound once as well: CHOOSE r \in {F(x) : x \in {e}} : TRUE
\* is F(e), with e evaluated a single time.

Digits == <<"0", "1", "2", "3", "4", "5", "6", "7", "8", "9">>

IsDigit(c) == \E i \in 1..10 : Digits[i] = c

DigitVal(c) == (CHOOSE i \in 1..10 : Digits[i] = c) - 1

\* How many of the characters of c from position p on are digits, up to maxd.
RECURSIVE DigitsAt(_, _, _)
DigitsAt(c, p, maxd) ==
    IF maxd = 0 \/ p > Len(c) THEN 0
    ELSE IF ~IsDigit(c[p]) THEN 0
    ELSE 1 + DigitsAt(c, p + 1, maxd - 1)

\* The number spelled by the n digits of c from position p on.
RECURSIVE ValOf(_, _, _)
ValOf(c, p, n) ==
    IF n = 0 THEN 0 ELSE ValOf(c, p, n - 1) * 10 + DigitVal(c[p + n - 1])

\* int(v): a str of an optional sign and decimal digits gives the number;
\* any other str is a ValueError, any value that is not a str a TypeError.
IntOf(v) ==
    IF v.t # "str" THEN [err |-> "TypeError", n |-> 0]
    ELSE LET c == v.s
             signed == Len(c) > 0 /\ c[1] \in {"+", "-"}
             p == IF signed THEN 2 ELSE 1
             nd == DigitsAt(c, p, Len(c))
         IN IF nd = 0 \/ p + nd - 1 # Len(c)
            THEN [err |-> "ValueError", n |-> 0]
            ELSE [err |-> "",
                  n |-> IF signed /\ c[1] = "-" THEN 0 - ValOf(c, p, nd)
                        ELSE ValOf(c, p, nd)]

IsLeap(y) == y % 4 = 0 /\ (y % 100 # 0 \/ y % 400 = 0)

DaysInMonth(y, m) ==
    IF m = 2 THEN (IF IsLeap(y) THEN 29 ELSE 28)
    ELSE IF m \in {4, 6, 9, 11} THEN 30 ELSE 31

\* datetime._DAYS_BEFORE_MONTH plus the leap day
DaysBeforeMonth(y, m) ==
    <<0, 31, 59, 90, 120, 151, 181, 212, 243, 273, 304, 334>>[m]
    + (IF m > 2 /\ IsLeap(y) THEN 1 ELSE 0)

\* datetime._ymd2ord: the proleptic Gregorian ordinal, 0001-01-01 being day 1
ToOrdinal(y, m, d) ==
    (y - 1) * 365 + (y - 1) \div 4 - (y - 1) \div 100 + (y - 1) \div 400
    + DaysBeforeMonth(y, m) + d

\* datetime._ord2ymd
FromOrdinal(ord) ==
    LET n0 == ord - 1
        n400 == n0 \div 146097
        r400 == n0 % 146097
        n100 == r400 \div 36524
        r100 == r400 % 36524
        n4 == r100 \div 1461
        r4 == r100 % 1461
        n1 == r4 \div 365
        n == r4 % 365
        year == n400 * 400 + 1 + n100 * 100 + n4 * 4 + n1
        leapyear == n1 = 3 /\ (n4 # 24 \/ n100 = 3)
        m0 == (n + 50) \div 32
        pre0 == <<0, 31, 59, 90, 120, 151, 181, 212, 243, 273, 304, 334>>[m0]
                + (IF m0 > 2 /\ leapyear THEN 1 ELSE 0)
        month == IF pre0 > n THEN m0 - 1 ELSE m0
        preceding == IF pre0 > n
                     THEN pre0 - (<<31, 28, 31, 30, 31, 30, 31, 31, 30, 31, 30, 31>>[m0 - 1]
                                  + (IF m0 - 1 = 2 /\ leapyear THEN 1 ELSE 0))
                     ELSE pre0
    IN IF n1 = 4 \/ n100 = 4
       THEN [Y |-> year - 1, Mo |-> 12, D |-> 31]
       ELSE [Y |-> year, Mo |-> month, D |-> n - preceding + 1]

NoDate == [err |-> "ValueError", Y |-> 0, Mo |-> 0, D |-> 0, H |-> 0, Mi |-> 0,
           S |-> 0, off |-> 0]

\* The %z directive on the characters z: Z, or a sign, two digits of hours, an
\* optional colon and two digits of minutes; off is the offset in minutes.
\* (The directive's optional seconds are outside the inputs drawn here.)
ParseOffset(z) ==
    IF z = <<"Z">> THEN [err |-> "", off |-> 0]
    ELSE IF Len(z) \notin {5, 6} \/ z[1] \notin {"+", "-"}
    THEN [err |-> "ValueError", off |-> 0]
    ELSE LET mp == IF z[4] = ":" THEN 5 ELSE 4
         IN IF DigitsAt(z, 2, 2) # 2 \/ mp + 1 # Len(z) \/ DigitsAt(z, mp, 2) # 2
            THEN [err |-> "ValueError", off |-> 0]
            ELSE LET hh == ValOf(z, 2, 2)
                     mm == ValOf(z, mp, 2)
                 IN IF mm > 59 \/ hh > 23
                    THEN [err |-> "ValueError", off |-> 0]
                    ELSE [err |-> "",
                          off |-> IF z[1] = "-" THEN 0 - (hh * 60 + mm)
                                  ELSE hh * 60 + mm]

\* c[p] is the literal character ch of the format
Lit(c, p, ch) == p <= Len(c) /\ c[p] = ch

\* datetime.strptime(v, "%Y-%m-%dT%H:%M:%S%z"): four digits of year, then
\* one or two digits for each further field, the format's literals between
\* them, and the offset.  A str that does not match, or whose fields are out
\* of range, is a ValueError; a value that is not a str a TypeError.
Strptime(v) ==
    IF v.t # "str" THEN [NoDate EXCEPT !.err = "TypeError"]
    ELSE LET c == v.s
             nY == DigitsAt(c, 1, 4)
             pMo == 6
             nMo == DigitsAt(c, pMo, 2)
             pD == pMo + nMo + 1
             nD == DigitsAt(c, pD, 2)
             pH == pD + nD + 1
             nH == DigitsAt(c, pH, 2)
             pMi == pH + nH + 1
             nMi == DigitsAt(c, pMi, 2)
             pS == pMi + nMi + 1
             nS == DigitsAt(c, pS, 2)
             pZ == pS + nS
         IN IF \/ nY # 4 \/ ~Lit(c, 5, "-")
               \/ nMo = 0 \/ ~Lit(c, pD - 1, "-")
               \/ nD = 0 \/ ~Lit(c, pH - 1, "T")
               \/ nH = 0 \/ ~Lit(c, pMi - 1, ":")
               \/ nMi = 0 \/ ~Lit(c, pS - 1, ":")
               \/ nS = 0 \/ pZ > Len(c)
            THEN NoDate
            ELSE LET y == ValOf(c, 1, 4)
                     mo == ValOf(c, pMo, nMo)
                     d == ValOf(c, pD, nD)
                     h == ValOf(c, pH, nH)
                     mi == ValOf(c, pMi, nMi)
                     sec == ValOf(c, pS, nS)
                     z == ParseOffset(SubSeq(c, pZ, Len(c)))
                 IN IF \/ y < 1 \/ mo < 1 \/ mo > 12 \/ d < 1
                       \/ h > 23 \/ mi > 59 \/ sec > 59 \/ z.err # ""
                    THEN NoDate
                    ELSE IF d > DaysInMonth(y, mo) THEN NoDate
                    ELSE [err |-> "", Y |-> y, Mo |-> mo, D |-> d, H |-> h,
                          Mi |-> mi, S |-> sec, off |-> z.off]

\* AddHours with the hour wrapped and the day left as it is
AddHoursSameDay(dt, n) == [dt EXCEPT !.H = (dt.H + n) % 24, !.err = ""]

\* dt + timedelta(hours=n): the sum is taken on the ordinal day and the
\* second of the day, the offset is kept; a year outside 1..9999 is an
\* OverflowError.
AddHours(dt, n) ==
    CHOOSE sum \in
      { LET days == ToOrdinal(dt.Y, dt.Mo, dt.D) + (total \div 86400)
            sec == total % 86400
        IN CHOOSE r \in
             { IF ymd.Y < 1 \/ ymd.Y > 9999
               THEN [dt EXCEPT !.err = "OverflowError"]
               ELSE [err |-> "", Y |-> ymd.Y, Mo |-> ymd.Mo, D |-> ymd.D,
                     H |-> sec \div 3600, Mi |-> (sec % 3600) \div 60,
                     S |-> sec % 60, off |-> dt.off] :
               ymd \in { IF days >= 1 THEN FromOrdinal(days)
                         ELSE [Y |-> 0, Mo |-> 1, D |-> 1] } } : TRUE :
        total \in { dt.H * 3600 + dt.Mi * 60 + dt.S + n * 3600 } } : TRUE

Pad2(n) == <<Digits[((n \div 10) % 10) + 1], Digits[(n % 10) + 1]>>

Pad4(n) == Pad2(n \div 100) \o Pad2(n % 100)

\* dt.isoformat() of an aware datetime without microseconds:
\* YYYY-MM-DDTHH:MM:SS+HH:MM
Isoformat(dt) ==
    LET a == IF dt.off < 0 THEN 0 - dt.off ELSE dt.off
    IN PyStr(Pad4(dt.Y) \o <<"-">> \o Pad2(dt.Mo) \o <<"-">> \o Pad2(dt.D)
             \o <<"T">> \o Pad2(dt.H) \o <<":">> \o Pad2(dt.Mi) \o <<":">>
             \o Pad2(dt.S) \o <<IF dt.off < 0 THEN "-" ELSE "+">>
             \o Pad2(a \div 60) \o <<":">> \o Pad2(a % 60))

----------------------------------------------------------------------------
(* __acknowledgement_decomposition *)

\* The six right-hand sides, in the order the function evaluates them.
AcknowledgementFields(acknowledgement_dict) ==
    << Get(Get(acknowledgement_dict, "Header"), "Creation"),
       Get(Get(acknowledgement_dict, "Header"), "Identification"),
       Get(Get(Get(acknowledgement_dict, "ProcessEnergyContext"),
               "EnergyBusinessProcess"), "#text"),
       Get(Get(Get(acknowledgement_dict, "PayloadResponseEvent"),
               "StatusType"), "#text"),
       Get(Get(Get(acknowledgement_dict, "PayloadResponseEvent"),
               "ResponseReasonType"), "#text"),
       Get(Get(acknowledgement_dict, "PayloadResponseEvent"),
           "OriginalBusinessDocumentReference") >>

AcknowledgementKeys ==
    << "timestamp", "identification", "energy_business_process", "status_type",
       "response_reason_type", "original_business_document_reference" >>

\* The returned dict, or the first exception one of the lookups raises.
acknowledgement_decomposition(acknowledgement_dict) ==
    LET f == AcknowledgementFields(acknowledgement_dict)
    IN IF IsRaise(FirstRaise(f)) THEN FirstRaise(f)
       ELSE PyDict([i \in 1..6 |-> <<AcknowledgementKeys[i], f[i]>>])

----------------------------------------------------------------------------
(* __metering_decomposition *)

\* The eight right-hand sides of lines 85-109, in order.
MeteringFields(metering_dict) ==
    LET pets == Get(metering_dict, "PayloadEnergyTimeSeries")
        period == Get(pets, "ObservationPeriodTimeSeriesPeriod")
    IN << Get(Get(Get(pets, "MeteringPointUsedDomainLocation"),
                  "Identification"), "#text"),
          Get(Get(metering_dict, "Header"), "Creation"),
          Get(Get(metering_dict, "Header"), "Identification"),
          Get(Get(Get(metering_dict, "ProcessEnergyContext"),
                  "EnergyBusinessProcess"), "#text"),
          Get(period, "Start"),
          Get(period, "End"),
          Get(period, "ResolutionDuration"),
          Get(Get(pets, "ProductIncludedProductCharacteristics"), "UnitType") >>

MeteringKeys ==
    << "metering_point", "timestamp", "identification",
       "energy_business_process", "start_time", "end_time", "resolution",
       "unit" >>

\* (start_time + timedelta(hours=int(e.get("@Sequence")))).isoformat()
ObservationTimestamp(start_time, e) ==
    CHOOSE ts \in
      { IF n.err # "" THEN Raised(n.err)
        ELSE CHOOSE r \in { IF d.err # "" THEN Raised(d.err) ELSE Isoformat(d) :
                            d \in {AddHours(start_time, n.n)} } : TRUE :
        n \in {IntOf(Get(e, "@Sequence"))} } : TRUE

\* The "value" of an entry: e.get("Metered") when that is truthy, else
\* list(e.values())[1].get("#text").
ObservationValue(e) ==
    IF Truthy(Get(e, "Metered")) THEN Get(e, "Metered")
    ELSE IF Len(e.kv) < 2 THEN Raised("IndexError")
    ELSE Get(Values(e)[2], "#text")

\* One element of the comprehension of lines 118-129.  The condition
\* e.get("Metered") is evaluated first, then the timestamp, then the value.
ObservationEntry(start_time, e) ==
    IF IsRaise(Get(e, "Metered")) THEN Get(e, "Metered")
    ELSE CHOOSE entry \in
           { IF IsRaise(ts) THEN ts
             ELSE IF IsRaise(ObservationValue(e)) THEN ObservationValue(e)
             ELSE PyDict(<< <<"timestamp", ts>>, <<"value", ObservationValue(e)>> >>) :
             ts \in {ObservationTimestamp(start_time, e)} } : TRUE

\* The sequence `for e in observations` runs over (line 128).
ObservationItems(observations) == Items(observations)

\* Lines 114-129: the value of metering["observations"] in the time-series case.
TimeSeriesObservations(start_text, observations) ==
    CHOOSE result \in
      { IF start_time.err # "" THEN Raised(start_time.err)
        ELSE CHOOSE r \in
               { IF IsRaise(FirstRaise(entries)) THEN FirstRaise(entries)
                 ELSE PyList(entries) :
                 entries \in { [i \in 1..Len(ObservationItems(observations)) |->
                                  ObservationEntry(start_time,
                                                   ObservationItems(observations)[i])] } } : TRUE :
        start_time \in {Strptime(start_text)} } : TRUE

\* The time as strftime("%Y-%m-%dT%H:%M:%S%z") spells it: no colon in the offset
ProfiledTimestampBasicOffset(start_time) ==
    PyStr(SubSeq(Isoformat(start_time).s, 1, 22) \o SubSeq(Isoformat(start_time).s, 24, 25))

\* Line 134: start_time.isoformat()
ProfiledTimestamp(start_time) == Isoformat(start_time)

\* Lines 131-136: the value of metering["observations"] in the profiled case.
ProfiledObservations(start_text, observations) ==
    CHOOSE result \in
      { IF start_time.err # "" THEN Raised(start_time.err)
        ELSE LET value == Get(Get(observations, "Metered"), "#text")
             IN IF IsRaise(value) THEN value
                ELSE PyDict(<< <<"timestamp", ProfiledTimestamp(start_time)>>,
                               <<"value", value>> >>) :
        start_time \in {Strptime(start_text)} } : TRUE

\* The shape with the last branch missing: what is no Observation is profiled
ObservationShapeNoElse(pets) ==
    IF Truthy(Get(pets, "Observation")) THEN "Observation" ELSE "ProfiledObservation"

\* Lines 113, 130, 137: which shape the payload holds.
ObservationShape(pets) ==
    IF Truthy(Get(pets, "Observation")) THEN "Observation"
    ELSE IF Truthy(Get(pets, "ProfiledObservation")) THEN "ProfiledObservation"
    ELSE "none"

\* The returned dict, None, or the first exception raised.
metering_decomposition(metering_dict) ==
    CHOOSE result \in
      { IF IsRaise(FirstRaise(f)) THEN FirstRaise(f)
        ELSE LET pets == Get(metering_dict, "PayloadEnergyTimeSeries")
                 shape == ObservationShape(pets)
             IN IF shape = "none" THEN PyNone
                ELSE CHOOSE r \in
                       { IF IsRaise(observations) THEN observations
                         ELSE PyDict([i \in 1..8 |-> <<MeteringKeys[i], f[i]>>]
                                     \o << <<"observations", observations>> >>) :
                         observations \in
                           { IF shape = "Observation"
                             THEN TimeSeriesObservations(f[5], Get(pets, "Observation"))
                             ELSE ProfiledObservations(f[5],
                                                       Get(pets, "ProfiledObservation")) } } : TRUE :
        f \in {MeteringFields(metering_dict)} } : TRUE

----------------------------------------------------------------------------
(* The inputs: trees xmltodict.parse yields for poll responses.  An element
   without attributes, children or text is None, an element with text only a
   str, any other element a dict of its attributes (@name) and then its
   children, its text under #text; a tag occurring several times among the
   children of one element is a list. *)

\* The largest number of Acknowledgement and NotifyValidatedDataForBillingEnergy
\* nodes, taken together, of a document.
MaxRecords == 2

\* A str the code does not look into
T(token) == PyStr(<<token>>)

Start_2023_01_01 == PyStr(<<"2", "0", "2", "3", "-", "0", "1", "-", "0", "1", "T", "0", "0", ":", "0", "0", ":", "0", "0", "+", "0", "1", ":", "0", "0">>)

Start_2023_12_31_basic_offset == PyStr(<<"2", "0", "2", "3", "-", "1", "2", "-", "3", "1", "T", "2", "3", ":", "0", "0", ":", "0", "0", "+", "0", "1", "0", "0">>)

Start_2024_02_28 == PyStr(<<"2", "0", "2", "4", "-", "0", "2", "-", "2", "8", "T", "2", "2", ":", "3", "0", ":", "1", "5", "-", "0", "5", ":", "0", "0">>)

Start_2023_06_30_Z == PyStr(<<"2", "0", "2", "3", "-", "0", "6", "-", "3", "0", "T", "1", "2", ":", "0", "0", ":", "0", "0", "Z">>)

Start_unpadded == PyStr(<<"2", "0", "2", "3", "-", "1", "-", "5", "T", "7", ":", "0", ":", "0", "+", "0", "1", ":", "0", "0">>)

Coded(attribute, code, text) ==
    PyDict(<< <<attribute, T(code)>>, <<"#text", T(text)>> >>)

HeaderNode(id) ==
    PyDict(<< <<"Identification", T(id)>>,
              <<"DocumentType", Coded("@listAgencyIdentifier", "6", "E66")>>,
              <<"Creation", T("2023-01-02T08:00:00Z")>> >>)

ProcessEnergyContextNode ==
    PyDict(<< <<"EnergyBusinessProcess",
                Coded("@listAgencyIdentifier", "89", "BRS-NO-315")>>,
              <<"EnergyIndustryClassification", T("23")>> >>)

\* PayloadEnergyTimeSeries with the observation children `observations`
PayloadNode(id, start, observations) ==
    PyDict(<< <<"Identification", T(id)>>,
              <<"ObservationPeriodTimeSeriesPeriod",
                PyDict(<< <<"ResolutionDuration", T("PT1H")>>,
                          <<"Start", start>>,
                          <<"End", T("2023-01-02T00:00:00+01:00")>> >>)>>,
              <<"ProductIncludedProductCharacteristics",
                PyDict(<< <<"Identification", T("8716867000030")>>,
                          <<"UnitType", Coded("@listAgencyIdentifier", "330", "KWH")>> >>)>>,
              <<"MeteringPointUsedDomainLocation",
                PyDict(<< <<"Identification",
                            Coded("@schemeAgencyIdentifier", "9", "707057500000000001")>> >>)>> >>
           \o observations)

MeteringNode(id, start, observations) ==
    PyDict(<< <<"Header", HeaderNode(id)>>,
              <<"ProcessEnergyContext", ProcessEnergyContextNode>>,
              <<"PayloadEnergyTimeSeries", PayloadNode(id, start, observations)>> >>)

\* <Observation Sequence="seq"><Metered>text</Metered></Observation>
Metered(seq, text) ==
    PyDict(<< <<"@Sequence", PyStr(seq)>>, <<"Metered", T(text)>> >>)

\* <Observation Sequence="seq"><tag quality="code">text</tag></Observation>
Qualified(seq, tag, code, text) ==
    PyDict(<< <<"@Sequence", PyStr(seq)>>, <<tag, Coded("@quality", code, text)>> >>)

\* The same two shapes with a further attribute before Sequence
MeteredAfter(seq, text) ==
    PyDict(<< <<"@Position", T("1")>>, <<"@Sequence", PyStr(seq)>>,
              <<"Metered", T(text)>> >>)

QualifiedAfter(seq, tag, code, text) ==
    PyDict(<< <<"@Position", T("1")>>, <<"@Sequence", PyStr(seq)>>,
              <<tag, Coded("@quality", code, text)>> >>)

ObservationChild(v) == << <<"Observation", v>> >>

ProfiledChild(text) ==
    << <<"ProfiledObservation",
         PyDict(<< <<"Metered", Coded("@quality", "127", text)>> >>)>> >>

MeteringSamples ==
    { MeteringNode("m1", Start_2023_01_01,
          ObservationChild(PyList(<< Metered(<<"0">>, "1.5"), Metered(<<"1">>, "2.5"),
                                     Metered(<<"2">>, "3.5") >>))),
      MeteringNode("m2", Start_2023_12_31_basic_offset,
          ObservationChild(PyList(<< Qualified(<<"1">>, "Estimated", "56", "7.0"),
                                     Metered(<<"2", "5">>, "8.0") >>))),
      MeteringNode("m3", Start_2024_02_28,
          ObservationChild(PyList(<< Qualified(<<"2">>, "Withdrawn", "58", "0"),
                                     Qualified(<<"2", "6">>, "Temporary", "21", "4.0") >>))),
      MeteringNode("m4", Start_2023_06_30_Z,
          ObservationChild(PyList(<< MeteredAfter(<<"1", "2">>, "9.0"),
                                     Metered(<<"0">>, "6.0") >>))),
      MeteringNode("m5", Start_2023_01_01,
          ObservationChild(Metered(<<"0">>, "1.5"))),
      MeteringNode("m6", Start_2023_01_01,
          ObservationChild(PyList(<< Qualified(<<"0">>, "Estimated", "56", "7.0"),
                                     QualifiedAfter(<<"1">>, "Estimated", "56", "7.5") >>))),
      MeteringNode("m7", Start_2023_01_01, ProfiledChild("42.0")),
      MeteringNode("m8", Start_2023_12_31_basic_offset, ProfiledChild("43.0")),
      MeteringNode("m9", Start_unpadded, ProfiledChild("44.0")),
      MeteringNode("m10", Start_2023_01_01, <<>>),
      PyDict(<< <<"ProcessEnergyContext", ProcessEnergyContextNode>>,
                <<"PayloadEnergyTimeSeries", PayloadNode("m11", Start_2023_01_01, <<>>)>> >>) }

PayloadResponseEventNode(status, ref) ==
    PyDict(<< <<"StatusType", Coded("@listAgencyIdentifier", "6", status)>>,
              <<"ResponseReasonType", Coded("@listAgencyIdentifier", "260", "E0S")>>,
              <<"OriginalBusinessDocumentReference", T(ref)>> >>)

AcknowledgementSamples ==
    { PyDict(<< <<"Header", HeaderNode("a1")>>,
                <<"ProcessEnergyContext", ProcessEnergyContextNode>>,
                <<"PayloadResponseEvent", PayloadResponseEventNode("39", "doc-1")>> >>),
      PyDict(<< <<"Header", HeaderNode("a2")>>,
                <<"ProcessEnergyContext", ProcessEnergyContextNode>>,
                <<"PayloadResponseEvent", PayloadResponseEventNode("41", "doc-2")>> >>),
      PyDict(<< <<"Header", PyDict(<< <<"Identification", T("a3")>> >>)>>,
                <<"ProcessEnergyContext", ProcessEnergyContextNode>>,
                <<"PayloadResponseEvent", PayloadResponseEventNode("39", "doc-3")>> >>),
      PyDict(<< <<"Header", HeaderNode("a4")>>,
                <<"ProcessEnergyContext", ProcessEnergyContextNode>> >>) }

\* The value a parent holds for a tag that occurs Len(nodes) >= 1 times
Occurring(nodes) == IF Len(nodes) = 1 THEN nodes[1] ELSE PyList(nodes)

\* <ResultDataSet> with the given nodes as its only content
ResultDataSetNode(acks, meterings) ==
    IF acks = <<>> /\ meterings = <<>> THEN PyNone
    ELSE PyDict((IF acks = <<>> THEN <<>>
                 ELSE << <<"Acknowledgement", Occurring(acks)>> >>)
                \o (IF meterings = <<>> THEN <<>>
                    ELSE << <<"NotifyValidatedDataForBillingEnergy",
                              Occurring(meterings)>> >>))

PollForDataResponseNode(children) ==
    PyDict(<< <<"@xmlns", T("urn:no:elhub:emif:wsdl:PollMeteringValues:v1")>> >> \o children)

BodyDocument(body) ==
    PyDict(<< <<"Envelope", PyDict(<< <<"Header", PyNone>>, <<"Body", body>> >>)>> >>)

Document(rds) ==
    BodyDocument(PyDict(<< <<"PollForDataResponse",
                             PollForDataResponseNode(<< <<"ResultDataSet", rds>> >>)>> >>))

SeqsOf(S, n) == [1..n -> S]

RecordDocuments ==
    { Document(ResultDataSetNode(a, m)) :
        <<a, m>> \in UNION { SeqsOf(AcknowledgementSamples, na)
                               \X SeqsOf(MeteringSamples, nm) :
                             <<na, nm>> \in { x \in (0..MaxRecords) \X (0..MaxRecords) :
                                              x[1] + x[2] <= MaxRecords } } }

\* Documents whose fixed path or whose ResultDataSet has another shape
ShapeDocuments ==
    LET m1 == CHOOSE m \in MeteringSamples :
                  Get(Get(m, "Header"), "Identification") = T("m1")
    IN { PyDict(<< <<"Fault", PyNone>> >>),
         PyDict(<< <<"Envelope", PyNone>> >>),
         PyDict(<< <<"Envelope", PyDict(<< <<"Header", PyNone>> >>)>> >>),
         BodyDocument(PyNone),
         BodyDocument(PyDict(<< <<"Fault", T("error")>> >>)),
         BodyDocument(PyDict(<< <<"PollForDataResponse", PyNone>> >>)),
         BodyDocument(PyDict(<< <<"PollForDataResponse", PollForDataResponseNode(<<>>)>> >>)),
         Document(PyDict(<< <<"@xmlns", T("urn:x")>> >>)),
         Document(T("text")),
         Document(PyDict(<< <<"Other", PyNone>> >>)),
         Document(PyDict(<< <<"Acknowledgement", PyNone>>,
                            <<"NotifyValidatedDataForBillingEnergy", m1>> >>)),
         Document(PyDict(<< <<"NotifyValidatedDataForBillingEnergy", T("text")>> >>)) }

Inputs == RecordDocuments \union ShapeDocuments

----------------------------------------------------------------------------
(* parse_metering_poll_response *)

Pending == [kind |-> "pending", value |-> PyNone]

\* Exception("No Data found in the response")
NoData == Raised("Exception")

Init ==
    /\ json_response \in Inputs
    /\ result_data_set = PyNone
    /\ acknowledgment = PyNone
    /\ metering = PyNone
    /\ metering_list = <<>>
    /\ acknowledgment_list = <<>>
    /\ pc = "navigate"
    /\ outcome = Pending

\* The exception e leaves the function; pc stays at the statement raising it.
Raise(e) ==
    /\ outcome' = [kind |-> "raise", value |-> e]
    /\ UNCHANGED <<json_response, result_data_set, acknowledgment, metering,
                   metering_list, acknowledgment_list, pc>>

\* The chain with every missing node taken for an empty mapping
LocateResultDataSetLenient(tree) ==
    LET Step(v, k) == IF v.t = "dict" THEN Lookup(v, k, PyNone) ELSE PyNone
    IN Step(Step(Step(Step(tree, "Envelope"), "Body"), "PollForDataResponse"),
            "ResultDataSet")

\* Lines 157-164: the chain of lookups down to ResultDataSet
LocateResultDataSet(tree) ==
    GetDefault(Get(Get(Get(tree, "Envelope"), "Body"), "PollForDataResponse"),
               "ResultDataSet", PyNone)

\* The function without its check for data
NoDataCheckMissing(rds) == PyNone

\* Lines 166-167: what the function raises once the chain has given rds
NoDataCheck(rds) == IF ~Truthy(rds) THEN NoData ELSE PyNone

\* Lines 157-167
Navigate ==
    /\ pc = "navigate" /\ outcome = Pending
    /\ LET rds == LocateResultDataSet(json_response)
       IN IF IsRaise(rds) THEN Raise(rds)
          ELSE IF IsRaise(NoDataCheck(rds)) THEN Raise(NoDataCheck(rds))
          ELSE /\ result_data_set' = rds
               /\ pc' = "normalize_acknowledgment"
               /\ UNCHANGED <<json_response, acknowledgment, metering,
                              metering_list, acknowledgment_list, outcome>>

\* The value left as xmltodict gave it
WrapSingleNever(v) == v

\* Lines 173-174 and 179-180: a single dict is wrapped into a list
WrapSingle(v) == IF IsDict(v) THEN PyList(<<v>>) ELSE v

\* Lines 169-174
NormalizeAcknowledgment ==
    /\ pc = "normalize_acknowledgment" /\ outcome = Pending
    /\ LET a == GetDefault(result_data_set, "Acknowledgement", PyList(<<>>))
       IN IF IsRaise(a) THEN Raise(a)
          ELSE /\ acknowledgment' = WrapSingle(a)
               /\ pc' = "normalize_metering"
               /\ UNCHANGED <<json_response, result_data_set, metering,
                              metering_list, acknowledgment_list, outcome>>

\* Lines 176-180
NormalizeMetering ==
    /\ pc = "normalize_metering" /\ outcome = Pending
    /\ LET m == GetDefault(result_data_set, "NotifyValidatedDataForBillingEnergy",
                           PyList(<<>>))
       IN IF IsRaise(m) THEN Raise(m)
          ELSE /\ metering' = WrapSingle(m)
               /\ pc' = "meterings"
               /\ UNCHANGED <<json_response, result_data_set, acknowledgment,
                              metering_list, acknowledgment_list, outcome>>

\* The value put in front of the list
CollectInFront(list, r) == <<r>> \o list

\* A comprehension adds the value of its next iteration at the end of its list
Collect(list, r) == Append(list, r)

\* Line 182, one iteration: the next record is decomposed, or the loop
\* cannot start because metering is not iterable.
DecomposeMetering ==
    /\ pc = "meterings" /\ outcome = Pending
    /\ IF ~Iterable(metering) THEN Raise(Raised("TypeError"))
       ELSE /\ Len(metering_list) < Len(Items(metering))
            /\ LET r == metering_decomposition(Items(metering)[Len(metering_list) + 1])
               IN IF IsRaise(r) THEN Raise(r)
                  ELSE /\ metering_list' = Collect(metering_list, r)
                       /\ UNCHANGED <<json_response, result_data_set, acknowledgment,
                                      metering, acknowledgment_list, pc, outcome>>

\* Line 182, the comprehension is exhausted
EndMeterings ==
    /\ pc = "meterings" /\ outcome = Pending
    /\ Iterable(metering) /\ Len(metering_list) = Len(Items(metering))
    /\ pc' = "acknowledgements"
    /\ UNCHANGED <<json_response, result_data_set, acknowledgment, metering,
                   metering_list, acknowledgment_list, outcome>>

\* Line 184, one iteration
DecomposeAcknowledgement ==
    /\ pc = "acknowledgements" /\ outcome = Pending
    /\ IF ~Iterable(acknowledgment) THEN Raise(Raised("TypeError"))
       ELSE /\ Len(acknowledgment_list) < Len(Items(acknowledgment))
            /\ LET r == acknowledgement_decomposition(
                            Items(acknowledgment)[Len(acknowledgment_list) + 1])
               IN IF IsRaise(r) THEN Raise(r)
                  ELSE /\ acknowledgment_list' = Collect(acknowledgment_list, r)
                       /\ UNCHANGED <<json_response, result_data_set, acknowledgment,
                                      metering, metering_list, pc, outcome>>

\* Lines 184 (the comprehension is exhausted) and 186
Return ==
    /\ pc = "acknowledgements" /\ outcome = Pending
    /\ Iterable(acknowledgment)
    /\ Len(acknowledgment_list) = Len(Items(acknowledgment))
    /\ outcome' = [kind |-> "return",
                   value |-> PyDict(<< <<"meterings", PyList(metering_list)>>,
                                       <<"acknowledgements", PyList(acknowledgment_list)>> >>)]
    /\ pc' = "done"
    /\ UNCHANGED <<json_response, result_data_set, acknowledgment, metering,
                   metering_list, acknowledgment_list>>

Next ==
    \/ Navigate
    \/ NormalizeAcknowledgment
    \/ NormalizeMetering
    \/ DecomposeMetering
    \/ EndMeterings
    \/ DecomposeAcknowledgement
    \/ Return

Spec == Init /\ [][Next]_vars

----------------------------------------------------------------------------
(* The source document as the properties below read it, by plain descent
   into the tree and without the function's own lookups. *)

\* What a node holds for a tag it does not have
Absent == [t |-> "absent", s |-> <<>>, kv |-> <<>>, el |-> <<>>]

Child(v, k) == IF v.t = "dict" THEN Lookup(v, k, Absent) ELSE Absent

\* A node that is there and is not a childless element
Present(v) == v.t \notin {"absent", "none"}

SrcPollForDataResponse ==
    Child(Child(Child(json_response, "Envelope"), "Body"), "PollForDataResponse")

SrcResultDataSet == Child(SrcPollForDataResponse, "ResultDataSet")

\* Envelope, Body and PollForDataResponse are all there, each a mapping
PathExists == SrcPollForDataResponse.t = "dict"

\* ResultDataSet is not in the tree, or is an element without any entry
ResultDataSetAbsentOrEmpty ==
    \/ SrcResultDataSet.t \in {"absent", "none"}
    \/ SrcResultDataSet.t = "dict" /\ SrcResultDataSet.kv = <<>>

\* The nodes of one tag under ResultDataSet, in document order
SrcNodes(tag) ==
    LET c == Child(SrcResultDataSet, tag)
    IN CASE c.t = "dict" -> <<c>>
         [] c.t = "list" -> c.el
         [] OTHER -> <<>>

SrcMeterings == SrcNodes("NotifyValidatedDataForBillingEnergy")

SrcAcknowledgements == SrcNodes("Acknowledgement")

SrcPayload(r) == Child(r, "PayloadEnergyTimeSeries")

SrcStart(r) == Child(Child(SrcPayload(r), "ObservationPeriodTimeSeriesPeriod"), "Start")

\* The Observation elements of a record: one mapping, or a list of them
SrcObservations(r) ==
    LET c == Child(SrcPayload(r), "Observation")
    IN CASE c.t = "dict" -> <<c>>
         [] c.t = "list" -> c.el
         [] OTHER -> <<>>

Returned == outcome.kind = "return"

ReturnedMeterings == Child(outcome.value, "meterings")

ReturnedAcknowledgements == Child(outcome.value, "acknowledgements")

\* The call has raised while decomposing the metering record, or the
\* acknowledgement record, that follows the ones already collected.
RaisedAtMetering ==
    /\ outcome.kind = "raise" /\ pc = "meterings"
    /\ Len(metering_list) < Len(SrcMeterings)

RaisedAtAcknowledgement ==
    /\ outcome.kind = "raise" /\ pc = "acknowledgements"
    /\ Len(acknowledgment_list) < Len(SrcAcknowledgements)

\* The eight fixed sub-paths of a metering record resolve
FixedPathsPresent(r) ==
    /\ Present(Child(r, "Header"))
    /\ Present(Child(Child(r, "ProcessEnergyContext"), "EnergyBusinessProcess"))
    /\ Present(Child(Child(SrcPayload(r), "MeteringPointUsedDomainLocation"),
                     "Identification"))
    /\ Present(Child(SrcPayload(r), "ObservationPeriodTimeSeriesPeriod"))
    /\ Present(Child(SrcPayload(r), "ProductIncludedProductCharacteristics"))

NeitherShape(r) ==
    /\ ~Present(Child(SrcPayload(r), "Observation"))
    /\ ~Present(Child(SrcPayload(r), "ProfiledObservation"))

ProfiledShape(r) ==
    /\ ~Present(Child(SrcPayload(r), "Observation"))
    /\ Present(Child(SrcPayload(r), "ProfiledObservation"))

\* YYYY-MM-DDTHH:MM:SS+HH:MM, character by character
IsCanonical(c) ==
    /\ Len(c) = 25
    /\ \A p \in 1..25 :
         CASE p \in {5, 8} -> c[p] = "-"
           [] p = 11 -> c[p] = "T"
           [] p \in {14, 17, 23} -> c[p] = ":"
           [] p = 20 -> c[p] \in {"+", "-"}
           [] OTHER -> IsDigit(c[p])

\* The calendar, one hour at a time
NextHour(dt) ==
    IF dt.H < 23 THEN [dt EXCEPT !.H = @ + 1]
    ELSE IF dt.D < DaysInMonth(dt.Y, dt.Mo) THEN [dt EXCEPT !.H = 0, !.D = @ + 1]
    ELSE IF dt.Mo < 12 THEN [dt EXCEPT !.H = 0, !.D = 1, !.Mo = @ + 1]
    ELSE [dt EXCEPT !.H = 0, !.D = 1, !.Mo = 1, !.Y = @ + 1]

RECURSIVE PlusHours(_, _)
PlusHours(dt, n) == IF n <= 0 THEN dt ELSE PlusHours(NextHour(dt), n - 1)

----------------------------------------------------------------------------
(* C1 *)

----------------------------------------------------------------------------
(* C2 *)

\* What the code must iterate over for a child of ResultDataSet
NormalizedAs(c, v) ==
    CASE c.t = "absent" -> v = PyList(<<>>)
      [] c.t = "dict" -> v = PyList(<<c>>)
      [] c.t = "list" -> v = c
      [] OTHER -> TRUE

Occurrences(c) ==
    CASE c.t = "absent" -> 0
      [] c.t = "dict" -> 1
      [] c.t = "list" -> Len(c.el)
      [] OTHER -> 0 - 1

\* C2: once the two children of a non-empty ResultDataSet are normalized, an
\* absent child is the empty list, a single mapping the one-element list of
\* it, and a list the list itself; and on every return both 'meterings' and
\* 'acknowledgements' are lists, as long as the child occurs (0, 1 or N).
C2_SequenceNormalization ==
    /\ pc \in {"normalize_metering", "meterings", "acknowledgements", "done"} =>
           NormalizedAs(Child(SrcResultDataSet, "Acknowledgement"), acknowledgment)
    /\ pc \in {"meterings", "acknowledgements", "done"} =>
           NormalizedAs(Child(SrcResultDataSet, "NotifyValidatedDataForBillingEnergy"),
                        metering)
    /\ Returned =>
           /\ ReturnedMeterings.t = "list"
           /\ Len(ReturnedMeterings.el) =
                  Occurrences(Child(SrcResultDataSet, "NotifyValidatedDataForBillingEnergy"))
           /\ ReturnedAcknowledgements.t = "list"
           /\ Len(ReturnedAcknowledgements.el) =
                  Occurrences(Child(SrcResultDataSet, "Acknowledgement"))

\* A return for a document with one Acknowledgement and one metering node
C2_Witness ==
    /\ Returned
    /\ Child(SrcResultDataSet, "Acknowledgement").t = "dict"
    /\ Child(SrcResultDataSet, "NotifyValidatedDataForBillingEnergy").t = "dict"
    /\ Len(ReturnedMeterings.el) = 1 /\ Len(ReturnedAcknowledgements.el) = 1

----------------------------------------------------------------------------
(* C3 *)

ExampleTimestamps ==
    << PyStr(<<"2", "0", "2", "3", "-", "0", "1", "-", "0", "1", "T", "0", "0", ":", "0", "0", ":", "0", "0", "+", "0", "1", ":", "0", "0">>),
       PyStr(<<"2", "0", "2", "3", "-", "0", "1", "-", "0", "1", "T", "0", "1", ":", "0", "0", ":", "0", "0", "+", "0", "1", ":", "0", "0">>),
       PyStr(<<"2", "0", "2", "3", "-", "0", "1", "-", "0", "1", "T", "0", "2", ":", "0", "0", ":", "0", "0", "+", "0", "1", ":", "0", "0">>) >>

\* The timestamps a decomposed record gives for its Observation items
OutTimestamps(out) ==
    [k \in 1..Len(Child(out, "observations").el) |->
        Child(Child(out, "observations").el[k], "timestamp")]

\* C3: in every decomposed time-series record, the timestamp of the entry of
\* each Observation item is in the form YYYY-MM-DDTHH:MM:SS+HH:MM and names
\* the hour reached from start_time by going on (the item's Sequence) hours
\* through the calendar, with the offset of start_time; and the record
\* starting 2023-01-01T00:00:00+01:00 with the sequences 0, 1, 2 gives
\* 00:00, 01:00 and 02:00 of that day at +01:00.
C3_TimestampIsStartPlusSequenceHours ==
    \A i \in 1..Len(metering_list) :
        LET r == SrcMeterings[i]
            out == metering_list[i]
            items == Child(SrcPayload(r), "Observation")
        IN (items.t = "list" /\ out.t = "dict") =>
            /\ Len(OutTimestamps(out)) = Len(items.el)
            /\ \A k \in 1..Len(items.el) :
                 /\ IsCanonical(OutTimestamps(out)[k].s)
                 /\ Strptime(OutTimestamps(out)[k]) =
                        PlusHours(Strptime(SrcStart(r)),
                                  IntOf(Child(items.el[k], "@Sequence")).n)
            /\ ( /\ SrcStart(r) = Start_2023_01_01
                 /\ [k \in 1..Len(items.el) |-> Child(items.el[k], "@Sequence").s]
                        = << <<"0">>, <<"1">>, <<"2">> >> )
               => OutTimestamps(out) = ExampleTimestamps

\* A decomposed time-series record with an entry past the day of start_time
C3_Witness ==
    \E i \in 1..Len(metering_list) :
        /\ Child(SrcPayload(SrcMeterings[i]), "Observation").t = "list"
        /\ metering_list[i].t = "dict"
        /\ \E k \in 1..Len(OutTimestamps(metering_list[i])) :
             Strptime(OutTimestamps(metering_list[i])[k]).D
                 # Strptime(SrcStart(SrcMeterings[i])).D

----------------------------------------------------------------------------
(* C4 *)

\* The text of ProfiledObservation.Metered of a record
SrcProfiledText(r) ==
    Child(Child(Child(SrcPayload(r), "ProfiledObservation"), "Metered"), "#text")

----------------------------------------------------------------------------
(* C5 *)

\* What C5 says of the records collected so far and of a return: a record
\* with neither shape gives None at its place, any other record its
\* decomposition, and 'meterings' is as long as the source has nodes.
NullPlaceholders ==
    /\ \A i \in 1..Len(metering_list) :
         IF NeitherShape(SrcMeterings[i])
         THEN metering_list[i] = PyNone
         ELSE metering_list[i] = metering_decomposition(SrcMeterings[i])
    /\ Returned => /\ ReturnedMeterings.el = metering_list
                   /\ Len(ReturnedMeterings.el) = Len(SrcMeterings)

----------------------------------------------------------------------------
(* C6 *)

\* C6: on every return, 'meterings' holds the decomposition of the i-th
\* NotifyValidatedDataForBillingEnergy node at place i and 'acknowledgements'
\* that of the i-th Acknowledgement node at place i, one for each node; and
\* while the call runs, the records collected are those of the first nodes.
C6_OrderPreserved ==
    /\ Len(metering_list) <= Len(SrcMeterings)
    /\ \A i \in 1..Len(metering_list) :
         metering_list[i] = metering_decomposition(SrcMeterings[i])
    /\ Len(acknowledgment_list) <= Len(SrcAcknowledgements)
    /\ \A i \in 1..Len(acknowledgment_list) :
         acknowledgment_list[i] = acknowledgement_decomposition(SrcAcknowledgements[i])
    /\ Returned =>
         /\ ReturnedMeterings.el = metering_list
         /\ Len(metering_list) = Len(SrcMeterings)
         /\ ReturnedAcknowledgements.el = acknowledgment_list
         /\ Len(acknowledgment_list) = Len(SrcAcknowledgements)

\* A return with two different metering records
C6_Witness ==
    /\ Returned
    /\ Len(ReturnedMeterings.el) = 2
    /\ ReturnedMeterings.el[1].t = "dict" /\ ReturnedMeterings.el[2].t = "dict"
    /\ ReturnedMeterings.el[1] # ReturnedMeterings.el[2]

----------------------------------------------------------------------------
(* C7, C8 *)

\* An Observation item as the code expects it: a mapping with Sequence, a
\* number, as its first entry and the reading as its second
PlainItem(e) ==
    /\ e.t = "dict" /\ Len(e.kv) >= 2
    /\ e.kv[1][1] = "@Sequence" /\ IntOf(e.kv[1][2]).err = ""
    /\ e.kv[2][2].t = "str" \/ Present(Child(e.kv[2][2], "#text"))

WellFormedStart(r) == FixedPathsPresent(r) /\ Strptime(SrcStart(r)).err = ""

\* The metering records decomposed so far, the one raising included
MeteringsReached ==
    1..(Len(metering_list) + IF RaisedAtMetering THEN 1 ELSE 0)

\* C7: every metering record with N >= 1 Observation elements, a single
\* mapping (N = 1) or a list of mappings, is decomposed, and its
\* 'observations' is a list of exactly N {timestamp, value} entries.
C7_OneEntryPerObservation ==
    \A i \in MeteringsReached :
        LET r == SrcMeterings[i]
            items == SrcObservations(r)
        IN ( /\ WellFormedStart(r) /\ Len(items) >= 1
             /\ \A k \in 1..Len(items) : PlainItem(items[k]) ) =>
            /\ i <= Len(metering_list)
            /\ metering_list[i].t = "dict"
            /\ Child(metering_list[i], "observations").t = "list"
            /\ Len(Child(metering_list[i], "observations").el) = Len(items)
            /\ \A k \in 1..Len(items) :
                 Child(Child(metering_list[i], "observations").el[k], "timestamp")
                     = ObservationTimestamp(Strptime(SrcStart(r)), items[k])

\* The text of a node: of a str the str, of a mapping its #text
InnerText(v) == IF v.t = "dict" THEN Child(v, "#text") ELSE v

\* The first entry of an item that is not its Sequence attribute
FirstOtherEntry(e) ==
    e.kv[CHOOSE j \in 1..Len(e.kv) :
             /\ e.kv[j][1] # "@Sequence"
             /\ \A h \in 1..(j - 1) : e.kv[h][1] = "@Sequence"][2]

\* An Observation item with a Sequence attribute, wherever it sits, and a
\* Metered field or an element with text
ItemWithReading(e) ==
    /\ e.t = "dict"
    /\ IntOf(Child(e, "@Sequence")).err = ""
    /\ \/ Present(Child(e, "Metered"))
       \/ \E j \in 1..Len(e.kv) :
            e.kv[j][1] # "@Sequence" /\ Present(Child(e.kv[j][2], "#text"))

\* C8: for every Observation item of a list, the value of its entry is the
\* item's Metered field when it has one, and else the inner text of the
\* first entry of the item that is not its Sequence attribute, wherever
\* that attribute sits.
C8_ValueOfFirstOtherChild ==
    \A i \in MeteringsReached :
        LET r == SrcMeterings[i]
            items == Child(SrcPayload(r), "Observation")
        IN ( /\ WellFormedStart(r) /\ items.t = "list"
             /\ \A k \in 1..Len(items.el) : ItemWithReading(items.el[k]) ) =>
            /\ i <= Len(metering_list)
            /\ metering_list[i].t = "dict"
            /\ \A k \in 1..Len(items.el) :
                 Child(Child(metering_list[i], "observations").el[k], "value")
                     = IF Present(Child(items.el[k], "Metered"))
                       THEN Child(items.el[k], "Metered")
                       ELSE InnerText(FirstOtherEntry(items.el[k]))

----------------------------------------------------------------------------
(* C9 *)

\* The six required paths of an acknowledgement record are there
RequiredPathsPresent(a) ==
    /\ Present(Child(Child(a, "Header"), "Creation"))
    /\ Present(Child(Child(a, "Header"), "Identification"))
    /\ Present(Child(Child(a, "ProcessEnergyContext"), "EnergyBusinessProcess"))
    /\ Present(Child(Child(a, "PayloadResponseEvent"), "StatusType"))
    /\ Present(Child(Child(a, "PayloadResponseEvent"), "ResponseReasonType"))
    /\ Present(Child(Child(a, "PayloadResponseEvent"),
                     "OriginalBusinessDocumentReference"))

\* C9: every acknowledgement record decomposed has all six fields set, none
\* of them None, and the call raises in the decomposition of an
\* acknowledgement record only when one of its six required paths is missing.
C9_AcknowledgementAllOrError ==
    /\ \A i \in 1..Len(acknowledgment_list) :
         /\ [k \in 1..Len(acknowledgment_list[i].kv) |-> acknowledgment_list[i].kv[k][1]]
                = AcknowledgementKeys
         /\ \A k \in 1..Len(acknowledgment_list[i].kv) :
              acknowledgment_list[i].kv[k][2].t # "none"
    /\ RaisedAtAcknowledgement =>
         ~RequiredPathsPresent(SrcAcknowledgements[Len(acknowledgment_list) + 1])

----------------------------------------------------------------------------
(* C10 *)

\* Envelope, Body or PollForDataResponse is not in the tree, or is a
\* childless element, which the tree does not tell from a missing one
PathNodeMissing == ~Present(SrcPollForDataResponse)

====
